---------------------------- MODULE Spec2Model ----------------------------
(***************************************************************************)
(* A model of the Trezor hardware wallet manager, hw/src/trezor/mod.rs:    *)
(* the HID framing of protocol messages (send_device_message,              *)
(* read_device_response), the open-with-retry helper (open_path), device   *)
(* discovery (update_devices, read_device_info, get_address), the PIN      *)
(* acknowledgement (pin_matrix_ack) and transaction signing                *)
(* (sign_transaction, signing_loop).                                       *)
(*                                                                         *)
(* Two specifications share the module:                                    *)
(*   SpecFrame  the frame codec at byte level, the host's reports looped   *)
(*              back to its own reader;                                    *)
(*   Spec       the manager's operations at message level, the device and  *)
(*              the HID layer being a nondeterministic environment.        *)
(***************************************************************************)
EXTENDS Integers, Sequences, FiniteSets, TLC

VARIABLES
    \* ---- frame codec (SpecFrame) ----
    fpc,        \* position of the codec run: "idle", "sent", "reading", "returned", "failed"
    origin,     \* who produced the reports on the wire: "none", "host", "device"
    msg_id,     \* send_device_message: msg_id of the message last sent
    message,    \* send_device_message: its payload bytes (msg.write_to_bytes())
    written,    \* the reports handed to device.write by the last send, in order
    wire,       \* reports the host has not read yet, as the transport delivers them
    buf,        \* read_device_response: buf
    first_chunk,\* read_device_response: first_chunk
    rd_type,    \* read_device_response: msg_type
    msg_size,   \* read_device_response: msg_size
    data,       \* read_device_response: data
    n_reads,    \* number of device.read_timeout calls of the current read
    fresult,    \* what read_device_response returned
    incoming,   \* the reports of the message being read, as the transport delivers them
    follow,     \* the message written right behind the one being read, if any
    \* ---- the manager (Spec) ----
    devices,        \* Manager.devices: the active-device snapshot, records [path, address]
    closed_devices, \* Manager.closed_devices: the paths of the locked devices
    usb_lock,       \* Manager.usb, the mutex around the HidApi: "free" or "held"
    op,             \* the operation running: "none", "update_devices", "pin_matrix_ack", "sign_transaction"
    pc,             \* its position
    ret,            \* what the last operation returned
    handle,         \* the path of the HidDevice handle the operation holds, or "none"
    \* update_devices
    hid,            \* usb.devices(): the enumeration of this refresh
    idx,            \* position of the for loop in it
    new_devices,    \* new_devices
    new_closed,     \* the local closed_devices
    \* open_path
    path,           \* the path the opener opens
    attempt,        \* rounds of `for _ in 0..10` done
    err,            \* err
    opener_calls,   \* invocations of the opener f() by the current open_path
    opener_last,    \* the result of its latest invocation: "ok" or the error
    opener_prev,    \* the result of the invocation before that
    \* sign_transaction and signing_loop
    address,        \* the address asked for
    data_len,       \* t_info.data.len()
    network_id,     \* t_info.network_id: NoChain or a 64-bit value
    rest,           \* signing_loop's data: the slice [off, len] of t_info.data
    depth,          \* signing_loop frames on the stack
    bytes_inline,   \* data bytes sent in EthereumSignTx.data_initial_chunk
    bytes_acked,    \* data bytes sent in EthereumTxAck chunks
    requested,      \* sum of the chunk lengths the device requested
    dev_sig,        \* the (v, r, s) of the device's final EthereumTxRequest
    pin,            \* pin_matrix_ack: the PIN
    \* device traffic of the current operation
    opened,         \* paths the opener was invoked on
    queried,        \* paths a message was sent to
    answers,        \* the (path, response type) pairs of the address queries
    n_sent,         \* messages sent
    n_read,         \* responses read
    last_sent,      \* the last message sent
    last_resp,      \* the type of the last response read
    \* ---- threads sharing managers and the HidApi (SpecThreads) ----
    mutex,          \* the Mutex around the shared HidApi: "free" or the thread holding the guard
    m_devices,      \* per manager: Manager.devices
    m_closed,       \* per manager: Manager.closed_devices
    committed,      \* per manager: the pair of lists as of its last complete refresh
    t_op,           \* per thread: the method of its manager it is in, or "none"
    t_pc,           \* per thread: its position in that method
    t_path,         \* per thread: the path it opens
    t_tries,        \* per thread: rounds of open_path's loop done
    t_handle,       \* per thread: the path of the handle it holds, or "none"
    t_hid,          \* per thread: update_devices' enumeration
    t_idx,          \* per thread: the position of update_devices' for loop
    t_new,          \* per thread: update_devices' new_devices and closed_devices
    t_ret           \* per thread: what a reader has read

fvars == <<fpc, origin, msg_id, message, written, wire, buf, first_chunk,
           rd_type, msg_size, data, n_reads, fresult, incoming, follow>>

snapshot == <<devices, closed_devices>>
ctl == <<usb_lock, op, pc, ret, handle>>
upd == <<hid, idx, new_devices, new_closed>>
opn == <<path, attempt, err, opener_calls, opener_last, opener_prev>>
sgn == <<address, data_len, network_id, rest, depth, bytes_inline,
         bytes_acked, requested, dev_sig, pin>>
io == <<opened, queried, answers, n_sent, n_read, last_sent, last_resp>>

mvars == <<snapshot, ctl, upd, opn, sgn, io>>

tshared == <<mutex, m_devices, m_closed, committed>>
tlocal == <<t_op, t_pc, t_path, t_tries, t_handle, t_hid, t_idx, t_new, t_ret>>

tvars == <<tshared, tlocal>>

vars == <<fvars, mvars, tvars>>

-----------------------------------------------------------------------------
(* Bytes and constants of the wire format *)

\* '#' as u8
HASH == 35

\* '?' as u8
QMARK == 63

\* the body bytes of one report: data.chunks(63), data.len() % 63
CHUNK == 63

\* vec![0; 64]: the read buffer
BUF_LEN == 64

\* first_chunk < 9: marker, two magic bytes, type and length
HEADER_LEN == 9

Min(a, b) == IF a < b THEN a ELSE b

Zeros(n) == [i \in 1..n |-> 0]

\* The discriminants of gen::messages::MessageType the manager uses
\* (Failure, PinMatrixAck, Cancel, ButtonRequest, ButtonAck,
\* EthereumGetAddress, EthereumAddress, EthereumSignTx, EthereumTxRequest,
\* EthereumTxAck).
MessageTypeIds == {3, 19, 20, 26, 27, 56, 57, 58, 59, 60}

\* MessageType::from_i32: Some for a discriminant of the enum, None otherwise
from_i32(n) == IF n \in MessageTypeIds THEN n ELSE -1

-----------------------------------------------------------------------------
(* send_device_message *)

\* data.push('#'); data.push('#'); the BE msg type; the BE msg_size
Header(id, size) ==
    << HASH, HASH, (id \div 256) % 256, id % 256,
       (size \div 16777216) % 256, (size \div 65536) % 256,
       (size \div 256) % 256, size % 256 >>

\* faulty variant: pads one byte short of the report boundary
PadShort(d) ==
    IF Len(d) % CHUNK > 0 THEN d \o Zeros(CHUNK - (Len(d) % CHUNK) - 1) ELSE d

\* while data.len() % 63 > 0 { data.push(0); }
RECURSIVE Pad(_)
Pad(d) == IF Len(d) % CHUNK > 0 THEN Pad(Append(d, 0)) ELSE d

\* data.chunks(63): consecutive slices of 63 bytes, the last one shorter when
\* the length is no multiple of 63
Chunks(d) ==
    [k \in 1..((Len(d) + CHUNK - 1) \div CHUNK) |->
        SubSeq(d, (k - 1) * CHUNK + 1, Min(k * CHUNK, Len(d)))]

\* the body before chunking: header, payload, padding
Body(id, payload) == Pad(Header(id, Len(payload)) \o payload)

\* vec![0, '?'] extended by the chunk
PaddedChunk(chunk) == <<0, QMARK>> \o chunk

\* the reports send_device_message hands to device.write, in order
Reports(id, payload) ==
    LET chunks == Chunks(Body(id, payload))
    IN  [k \in 1..Len(chunks) |-> PaddedChunk(chunks[k])]

\* hidapi write: the first byte is the report id, which is not part of the
\* report the device gets (and, looped back, the host reads)
Transport(report) == Tail(report)


-----------------------------------------------------------------------------
(* read_device_response *)

\* device.read_timeout(&mut buf, 10_000): the report overwrites the start of
\* buf, the rest of buf keeps what it held; a timeout reads nothing
ReadInto(b, report) ==
    LET n == Min(Len(report), BUF_LEN)
    IN  SubSeq(report, 1, n) \o SubSeq(b, n + 1, BUF_LEN)

\* faulty variant: the second magic byte is not looked at
BadFirstReportLax(n, b) ==
    n < HEADER_LEN \/ b[1] # QMARK \/ b[2] # HASH

\* first_chunk < 9 || buf[0] != '?' || buf[1] != '#' || buf[2] != '#'
BadFirstReport(n, b) ==
    n < HEADER_LEN \/ b[1] # QMARK \/ b[2] # HASH \/ b[3] # HASH

\* MessageType::from_i32((buf[3] << 8) + buf[4])
DecodeType(b) == from_i32(b[4] * 256 + b[5])

\* (buf[5] << 24) + (buf[6] << 16) + (buf[7] << 8) + buf[8]
DecodeSize(b) == b[6] * 16777216 + b[7] * 65536 + b[8] * 256 + b[9]

\* faulty variant: the first report's payload taken from one byte too early
FirstDataEarly(b) == SubSeq(b, HEADER_LEN, BUF_LEN)

\* data.extend_from_slice(&buf[9..])
FirstData(b) == SubSeq(b, HEADER_LEN + 1, BUF_LEN)

\* data.extend_from_slice(&buf[1..])
NextData(b) == SubSeq(b, 2, BUF_LEN)

\* faulty variant: the loop reads on until it has more than the declared size
NeedsMoreInclusive(d, size) == Len(d) <= size

\* while data.len() < (msg_size as usize)
NeedsMore(d, size) == Len(d) < size

\* Error::Protocol("Unexpected wire response from Trezor Device")
protocol_err == [ok |-> FALSE, err |-> "Protocol: unexpected wire response"]

\* Ok((msg_type, data[..msg_size].to_vec()))
OkResponse(t, d, size) == [ok |-> TRUE, type |-> t, bytes |-> SubSeq(d, 1, size)]

NoResult == [ok |-> FALSE, err |-> "none"]

-----------------------------------------------------------------------------
(* The messages and device reports the frame codec is run on *)

\* payload lengths around the report boundaries (55 payload bytes fit the
\* first report, 63 each later one), and the long ones
PayloadLens == {0, 1, 54, 55, 56, 62, 63, 64, 118, 119, 1000, 5000}

\* byte patterns: all zero, a counter, one starting with '?', one descending
PayloadSeeds == {0, 1, 63, 255}

Payload(n, s) == [i \in 1..n |-> (s * i) % 256]

Payloads == {Payload(n, s) : n \in PayloadLens, s \in PayloadSeeds}

\* no message is queued behind the one being read
NoFollow == [id |-> -1, payload |-> <<>>]

\* the follow-up that is being read now
Second == [id |-> -2, payload |-> <<>>]

\* the messages that may be written right behind another: one of a single
\* report and one of two
FollowUps == { [id |-> 26, payload |-> <<>>], [id |-> 57, payload |-> Payload(56, 1)] }

\* What a device may put on the wire by itself: a report too short to hold
\* the header, one without the '?' marker, one without the first and one
\* without the second magic byte (each of a known type otherwise), one of
\* an unknown message type, a well-formed one-report message, a first
\* report that declares more payload than the device delivers, and
\* well-formed first reports followed by a report that starts with 0,
\* with '#' or with '?'.
DeviceStreams ==
    { << <<QMARK, HASH, HASH, 0, 3, 0, 0, 0>> >>,
      << <<0, HASH, HASH, 0, 26, 0, 0, 0, 0>> \o Zeros(55) >>,
      << <<QMARK, 0, HASH, 0, 26, 0, 0, 0, 0>> \o Zeros(55) >>,
      << <<QMARK, HASH, 0, 0, 26, 0, 0, 0, 0>> \o Zeros(55) >>,
      << <<QMARK, HASH, HASH, 3, 0, 0, 0, 0, 0>> \o Zeros(55) >>,
      << <<QMARK, HASH, HASH, 0, 26, 0, 0, 0, 2, 8, 3>> \o Zeros(53) >>,
      << <<QMARK, HASH, HASH, 0, 57, 0, 0, 0, 60>> \o [i \in 1..55 |-> i] >>,
      << <<QMARK, HASH, HASH, 0, 57, 0, 0, 0, 60>> \o [i \in 1..55 |-> i],
         <<0>> \o [i \in 1..63 |-> 100 + i] >>,
      << <<QMARK, HASH, HASH, 0, 57, 0, 0, 0, 60>> \o [i \in 1..55 |-> i],
         <<HASH>> \o [i \in 1..63 |-> 100 + i] >>,
      << <<QMARK, HASH, HASH, 0, 57, 0, 0, 0, 120>> \o [i \in 1..55 |-> i],
         <<QMARK>> \o [i \in 1..63 |-> 100 + i],
         <<7>> \o [i \in 1..63 |-> 170 + i] >> }

-----------------------------------------------------------------------------
(* The frame codec's steps *)

InitFrameVars ==
    /\ fpc = "idle"
    /\ origin = "none"
    /\ msg_id = 0
    /\ message = <<>>
    /\ written = <<>>
    /\ wire = <<>>
    /\ buf = Zeros(BUF_LEN)
    /\ first_chunk = 0
    /\ rd_type = -1
    /\ msg_size = 0
    /\ data = <<>>
    /\ n_reads = 0
    /\ fresult = NoResult
    /\ incoming = <<>>
    /\ follow = NoFollow

\* send_device_message(device, msg_type, msg): every report is written, and
\* the transport carries each to the other end
SendDeviceMessage ==
    /\ fpc = "idle"
    /\ \E id \in MessageTypeIds, payload \in Payloads :
          LET reports == Reports(id, payload)
          IN  /\ msg_id' = id
              /\ message' = payload
              /\ written' = reports
              /\ wire' = [k \in 1..Len(reports) |-> Transport(reports[k])]
              /\ incoming' = [k \in 1..Len(reports) |-> Transport(reports[k])]
    /\ origin' = "host"
    /\ fpc' = "sent"
    /\ UNCHANGED <<buf, first_chunk, rd_type, msg_size, data, n_reads, fresult, follow>>

\* a second send_device_message before the first message is read: its
\* reports queue up behind those of the first
SendFollowUp ==
    /\ fpc = "sent"
    /\ origin = "host"
    /\ follow = NoFollow
    /\ \E m \in FollowUps :
          LET reports == Reports(m.id, m.payload)
          IN  /\ follow' = m
              /\ wire' = wire \o [k \in 1..Len(reports) |-> Transport(reports[k])]
    /\ UNCHANGED <<fpc, origin, msg_id, message, written, buf, first_chunk,
                   rd_type, msg_size, data, n_reads, fresult, incoming>>

\* the first message has been read and returned; read_device_response is
\* called again, for the follow-up, on what is left on the wire
NextMessage ==
    /\ fpc = "returned"
    /\ origin = "host"
    /\ follow \in FollowUps
    /\ msg_id' = follow.id
    /\ message' = follow.payload
    /\ written' = Reports(follow.id, follow.payload)
    /\ incoming' = wire
    /\ follow' = Second
    /\ fpc' = "sent"
    /\ buf' = Zeros(BUF_LEN)
    /\ first_chunk' = 0
    /\ rd_type' = -1
    /\ msg_size' = 0
    /\ data' = <<>>
    /\ n_reads' = 0
    /\ fresult' = NoResult
    /\ UNCHANGED <<origin, wire>>

\* the device sends reports of its own
DeviceSends ==
    /\ fpc = "idle"
    /\ \E stream \in DeviceStreams : wire' = stream /\ incoming' = stream
    /\ origin' = "device"
    /\ fpc' = "sent"
    /\ UNCHANGED <<msg_id, message, written, buf, first_chunk, rd_type,
                   msg_size, data, n_reads, fresult, follow>>

\* read_device_response up to the loop: the first read, the marker check,
\* the type and the size
ReadFirst ==
    /\ fpc = "sent"
    /\ LET report == IF wire = <<>> THEN <<>> ELSE Head(wire)
           b == ReadInto(Zeros(BUF_LEN), report)
           n == Min(Len(report), BUF_LEN)
       IN  /\ buf' = b
           /\ first_chunk' = n
           /\ wire' = IF wire = <<>> THEN wire ELSE Tail(wire)
           /\ IF BadFirstReport(n, b) \/ DecodeType(b) = -1
              THEN /\ fpc' = "failed"
                   /\ fresult' = protocol_err
                   /\ UNCHANGED <<rd_type, msg_size, data>>
              ELSE /\ fpc' = "reading"
                   /\ rd_type' = DecodeType(b)
                   /\ msg_size' = DecodeSize(b)
                   /\ data' = FirstData(b)
                   /\ UNCHANGED fresult
    /\ n_reads' = 1
    /\ UNCHANGED <<origin, msg_id, message, written, incoming, follow>>

\* one round of: while data.len() < msg_size { read_timeout; extend }
ReadNext ==
    /\ fpc = "reading"
    /\ NeedsMore(data, msg_size)
    /\ LET report == IF wire = <<>> THEN <<>> ELSE Head(wire)
           b == ReadInto(buf, report)
       IN  /\ buf' = b
           /\ data' = data \o NextData(b)
    /\ wire' = IF wire = <<>> THEN wire ELSE Tail(wire)
    /\ n_reads' = n_reads + 1
    /\ UNCHANGED <<fpc, origin, msg_id, message, written, first_chunk,
                   rd_type, msg_size, fresult, incoming, follow>>

\* the loop's exit and the return
ReadReturn ==
    /\ fpc = "reading"
    /\ ~NeedsMore(data, msg_size)
    /\ fresult' = OkResponse(rd_type, data, msg_size)
    /\ fpc' = "returned"
    /\ UNCHANGED <<origin, msg_id, message, written, wire, buf, first_chunk,
                   rd_type, msg_size, data, n_reads, incoming, follow>>

\* the exchange is over; the next one starts from scratch
FrameDone ==
    /\ fpc \in {"returned", "failed"}
    /\ fpc' = "idle"
    /\ origin' = "none"
    /\ msg_id' = 0
    /\ message' = <<>>
    /\ written' = <<>>
    /\ wire' = <<>>
    /\ buf' = Zeros(BUF_LEN)
    /\ first_chunk' = 0
    /\ rd_type' = -1
    /\ msg_size' = 0
    /\ data' = <<>>
    /\ n_reads' = 0
    /\ fresult' = NoResult
    /\ incoming' = <<>>
    /\ follow' = NoFollow

-----------------------------------------------------------------------------
(* The manager: constants, the HID environment *)

\* const TREZOR_VID: u16 = 0x534c
TREZOR_VID == 21324

\* const TREZOR_PIDS: [u16; 1] = [0x0001]
TREZOR_PIDS == {1}

\* usb_device.usage_page != 0xFF00
USAGE_PAGE == 65280

\* for _ in 0..10
OPEN_ATTEMPTS == 10

\* min(t_info.data.len(), 1024)
FIRST_CHUNK == 1024

\* the longest enumeration a refresh sees
MaxEnum == 3

\* the rounds of signing_loop the thread's stack has room for beyond the
\* first: signing_loop calls itself once per ButtonRequest and per chunk
\* request, and the stack of a thread is finite
MaxRounds == 6

\* The HID devices that may be attached: two Trezors, and one device each
\* with another vendor id, another product id and another usage page.
HidDevices ==
    { [path |-> "p1", vendor_id |-> TREZOR_VID, product_id |-> 1, usage_page |-> USAGE_PAGE],
      [path |-> "p2", vendor_id |-> TREZOR_VID, product_id |-> 1, usage_page |-> USAGE_PAGE],
      [path |-> "xv", vendor_id |-> 11415, product_id |-> 1, usage_page |-> USAGE_PAGE],
      [path |-> "xp", vendor_id |-> TREZOR_VID, product_id |-> 2, usage_page |-> USAGE_PAGE],
      [path |-> "xu", vendor_id |-> TREZOR_VID, product_id |-> 1, usage_page |-> 61904] }

\* the enumerations a refresh may see: every order of up to MaxEnum attached
\* devices, each listed once
Enumerations ==
    UNION { { e \in [1..n -> HidDevices] : \A i, j \in 1..n : i # j => e[i] # e[j] }
            : n \in 0..MaxEnum }

\* the paths a caller of pin_matrix_ack may name, one of them of no device
Paths == {"p1", "p2", "gone"}

\* the address the device at a path answers an address query with
AddressOf(p) == IF p = "p1" THEN "a1" ELSE "a2"

\* the addresses a caller of sign_transaction may name, one of them of no device
Addresses == {"a1", "a2", "a3"}

NoAddress == "a0"

Pins == {"1397", "42"}

\* what the opener usb.open_path may fail with
OpenErrors == {"open: e1", "open: e2"}

\* what device.write and device.read_timeout (with the framing check) may fail with
IoErrors == {"Usb", "Protocol: Unexpected wire response from Trezor Device"}

\* the message types a device answers an address query or a PIN with
AddressReplies == {"EthereumAddress", "Failure", "PinMatrixRequest"}

\* the message types a device answers with during signing: those
\* signing_loop tells apart and three it does not
SigningReplies ==
    {"Cancel", "ButtonRequest", "EthereumTxRequest", "Failure",
     "EthereumAddress", "PinMatrixRequest", "Success"}

\* From<protobuf::ProtobufError>
ParseError == "Protocol: Could not read response from Trezor Device"

Ok(v) == [ok |-> TRUE, val |-> v]

Err(e) == [ok |-> FALSE, err |-> e]

\* a thread that panics unwinds: the call returns nothing
Panic == [ok |-> FALSE, err |-> "panic"]

NoRet == [ok |-> FALSE, err |-> "none"]

NoSig == [v |-> <<>>, r |-> "none", s |-> "none"]

NoMsg == [type |-> "none"]

NoChain == <<>>

-----------------------------------------------------------------------------
(* Unsigned integers wider than TLC's 32-bit integers: little-endian limbs of 16 bits *)

BASE == 256 * 256

Small(n) == <<n, 0, 0, 0, 0>>

RECURSIVE AddFrom(_, _, _, _)
AddFrom(a, b, i, carry) ==
    IF i > 5 THEN <<>>
    ELSE LET t == a[i] + b[i] + carry
         IN  <<t % BASE>> \o AddFrom(a, b, i + 1, t \div BASE)

\* a + b, exact (no value of the model needs more than 5 limbs)
BigAdd(a, b) == AddFrom(a, b, 1, 0)

\* x as u32
Trunc32(a) == <<a[1], a[2], 0, 0, 0>>

\* the value fits a u32
Fits32(a) == a[3] = 0 /\ a[4] = 0 /\ a[5] = 0

\* a < b for u32 values
Less32(a, b) == a[2] < b[2] \/ (a[2] = b[2] /\ a[1] < b[1])

\* a - b modulo 2^32 for u32 values
WrapSub32(a, b) ==
    LET lo == a[1] - b[1]
        borrow == IF lo < 0 THEN 1 ELSE 0
        hi == a[2] - b[2] - borrow
    IN  <<(lo + BASE) % BASE, (hi + BASE) % BASE, 0, 0, 0>>

\* x as u8
AsU8(a) == a[1] % 256

-----------------------------------------------------------------------------
(* The manager's state after Manager::new *)

InitMgrVars ==
    /\ devices = <<>>
    /\ closed_devices = <<>>
    /\ usb_lock = "free"
    /\ op = "none"
    /\ pc = "idle"
    /\ ret = NoRet
    /\ handle = "none"
    /\ hid = <<>>
    /\ idx = 0
    /\ new_devices = <<>>
    /\ new_closed = <<>>
    /\ path = "none"
    /\ attempt = 0
    /\ err = "none"
    /\ opener_calls = 0
    /\ opener_last = "none"
    /\ opener_prev = "none"
    /\ address = NoAddress
    /\ data_len = 0
    /\ network_id = NoChain
    /\ rest = [off |-> 0, len |-> 0]
    /\ depth = 0
    /\ bytes_inline = 0
    /\ bytes_acked = 0
    /\ requested = 0
    /\ dev_sig = NoSig
    /\ pin = "none"
    /\ opened = {}
    /\ queried = {}
    /\ answers = {}
    /\ n_sent = 0
    /\ n_read = 0
    /\ last_sent = NoMsg
    /\ last_resp = "none"

\* The locals of a call before it sets them, and after it has returned.
FreshUpd ==
    /\ hid' = <<>>
    /\ idx' = 0
    /\ new_devices' = <<>>
    /\ new_closed' = <<>>

FreshOpn ==
    /\ path' = "none"
    /\ attempt' = 0
    /\ err' = "none"
    /\ opener_calls' = 0
    /\ opener_last' = "none"
    /\ opener_prev' = "none"

FreshSgn ==
    /\ address' = NoAddress
    /\ data_len' = 0
    /\ network_id' = NoChain
    /\ rest' = [off |-> 0, len |-> 0]
    /\ depth' = 0
    /\ bytes_inline' = 0
    /\ bytes_acked' = 0
    /\ requested' = 0
    /\ dev_sig' = NoSig
    /\ pin' = "none"

FreshIo ==
    /\ opened' = {}
    /\ queried' = {}
    /\ answers' = {}
    /\ n_sent' = 0
    /\ n_read' = 0
    /\ last_sent' = NoMsg
    /\ last_resp' = "none"

\* The operation's return value is r; its locals are still in scope.
Return(r) ==
    /\ ret' = r
    /\ pc' = "return"
    /\ UNCHANGED <<usb_lock, op, handle>>

\* The call is left: the locals go out of scope, the HidDevice handle and
\* then the MutexGuard of self.usb are dropped; a panicking call unwinds the
\* same way.
Drop ==
    /\ pc = "return"
    /\ op' = "none"
    /\ pc' = "idle"
    /\ ret' = NoRet
    /\ handle' = "none"
    /\ usb_lock' = "free"
    /\ FreshUpd /\ FreshOpn /\ FreshSgn /\ FreshIo
    /\ UNCHANGED snapshot

-----------------------------------------------------------------------------
(* open_path *)

\* let mut err = Error::KeyNotFound; the loop has not started
EnterOpenPath(p) ==
    /\ path' = p
    /\ attempt' = 0
    /\ err' = "KeyNotFound"
    /\ opener_calls' = 0
    /\ opener_last' = "none"
    /\ opener_prev' = "none"
    /\ pc' = "open_path"

\* open_path has returned the handle: its locals are gone
LeaveOpenPath ==
    /\ attempt' = 0
    /\ err' = "none"
    /\ opener_calls' = 0
    /\ opener_last' = "none"
    /\ opener_prev' = "none"
    /\ UNCHANGED path

\* where the operation goes on once open_path has returned the handle
AfterOpen(o) ==
    CASE o = "update_devices" -> "get_address"
      [] o = "pin_matrix_ack" -> "pin_matrix_ack"
      [] o = "sign_transaction" -> "sign_tx"

\* for _ in 0..10: there is a round left
OpenLoopRuns(n) == n < OPEN_ATTEMPTS

\* faulty variant: only the first error is kept
KeepFirstErr(old, e) == IF old = "KeyNotFound" THEN e ELSE old

\* Err(e) => err = From::from(e)
NextErr(old, e) == e

\* One round of the loop whose f() succeeds: Ok(handle) => return Ok(handle)
OpenPathOk ==
    /\ pc = "open_path"
    /\ OpenLoopRuns(attempt)
    /\ opener_calls' = opener_calls + 1
    /\ opener_prev' = opener_last
    /\ opener_last' = "ok"
    /\ opened' = opened \cup {path}
    /\ handle' = path
    /\ pc' = AfterOpen(op)
    /\ UNCHANGED <<snapshot, usb_lock, op, ret, upd, path, attempt, err, sgn,
                   queried, answers, n_sent, n_read, last_sent, last_resp>>

\* One round of the loop whose f() fails: the error is kept, the thread
\* sleeps 200 ms
OpenPathErr ==
    /\ pc = "open_path"
    /\ OpenLoopRuns(attempt)
    /\ \E e \in OpenErrors :
          /\ err' = NextErr(err, e)
          /\ opener_last' = e
    /\ opener_calls' = opener_calls + 1
    /\ opener_prev' = opener_last
    /\ opened' = opened \cup {path}
    /\ attempt' = attempt + 1
    /\ UNCHANGED <<snapshot, ctl, upd, path, sgn,
                   queried, answers, n_sent, n_read, last_sent, last_resp>>

\* The loop is over: Err(err), which every caller passes on with `?`
\* (update_devices through read_device_info and its Err(e) => return Err(e))
OpenPathExhausted ==
    /\ pc = "open_path"
    /\ ~OpenLoopRuns(attempt)
    /\ Return(Err(err))
    /\ UNCHANGED <<snapshot, upd, opn, sgn, io>>

-----------------------------------------------------------------------------
(* update_devices, read_device_info, get_address *)

\* faulty variant: the usage page is not looked at
MismatchNoUsage(d) ==
    \/ d.vendor_id # TREZOR_VID
    \/ d.product_id \notin TREZOR_PIDS

\* usb_device.vendor_id != TREZOR_VID || !TREZOR_PIDS.contains(&usb_device.product_id)
\*     || usb_device.usage_page != 0xFF00
Mismatch(d) ==
    \/ d.vendor_id # TREZOR_VID
    \/ d.product_id \notin TREZOR_PIDS
    \/ d.usage_page # USAGE_PAGE

\* update_devices up to the for loop: the lock, the refresh, the enumeration
UpdateDevices ==
    /\ op = "none"
    /\ \E e \in Enumerations : hid' = e
    /\ idx' = 1
    /\ new_devices' = <<>>
    /\ new_closed' = <<>>
    /\ usb_lock' = "held"
    /\ op' = "update_devices"
    /\ pc' = "for"
    /\ UNCHANGED <<snapshot, ret, handle, opn, sgn, io>>

\* the for loop at a device the filter rejects: continue
UpdateContinue ==
    /\ op = "update_devices" /\ pc = "for"
    /\ idx <= Len(hid)
    /\ Mismatch(hid[idx])
    /\ idx' = idx + 1
    /\ UNCHANGED <<snapshot, ctl, hid, new_devices, new_closed, opn, sgn, io>>

\* the for loop at a device the filter keeps: read_device_info starts with
\* open_path
ReadDeviceInfo ==
    /\ op = "update_devices" /\ pc = "for"
    /\ idx <= Len(hid)
    /\ ~Mismatch(hid[idx])
    /\ EnterOpenPath(hid[idx].path)
    /\ UNCHANGED <<snapshot, usb_lock, op, ret, handle, upd, sgn, io>>

\* a message of type t goes out on the open handle
Sent(msg) ==
    /\ queried' = queried \cup {handle}
    /\ n_sent' = n_sent + 1
    /\ last_sent' = msg

\* a response of type t has been read
Read(t) ==
    /\ n_read' = n_read + 1
    /\ last_resp' = t

\* resp_type matches MessageType::MessageType_EthereumAddress
IsAddress(t) == t = "EthereumAddress"

\* faulty variant: the record of an active device is pushed to self.devices
\* right away, the snapshot being patched in place
GetAddressSomeInPlace ==
    /\ op = "update_devices" /\ pc = "get_address"
    /\ Sent([type |-> "EthereumGetAddress"])
    /\ \E t \in AddressReplies :
          /\ IsAddress(t)
          /\ Read(t)
          /\ answers' = answers \cup {<<path, t>>}
    /\ new_devices' = Append(new_devices, [path |-> path, address |-> AddressOf(path)])
    /\ devices' = Append(devices, [path |-> path, address |-> AddressOf(path)])
    /\ idx' = idx + 1
    /\ handle' = "none"
    /\ pc' = "for"
    /\ FreshOpn
    /\ UNCHANGED <<closed_devices, usb_lock, op, ret, hid, new_closed, sgn, opened>>

\* get_address reads an EthereumAddress it can parse: Ok(Some(addr)), the
\* Device is pushed to new_devices; read_device_info returns and the handle
\* is dropped
GetAddressSome ==
    /\ op = "update_devices" /\ pc = "get_address"
    /\ Sent([type |-> "EthereumGetAddress"])
    /\ \E t \in AddressReplies :
          /\ IsAddress(t)
          /\ Read(t)
          /\ answers' = answers \cup {<<path, t>>}
    /\ new_devices' = Append(new_devices, [path |-> path, address |-> AddressOf(path)])
    /\ idx' = idx + 1
    /\ handle' = "none"
    /\ pc' = "for"
    /\ FreshOpn
    /\ UNCHANGED <<snapshot, usb_lock, op, ret, hid, new_closed, sgn, opened>>

\* faulty variant: the handle of a locked device is kept open for the PIN
GetAddressNoneKeepsHandle ==
    /\ op = "update_devices" /\ pc = "get_address"
    /\ Sent([type |-> "EthereumGetAddress"])
    /\ \E t \in AddressReplies :
          /\ ~IsAddress(t)
          /\ Read(t)
          /\ answers' = answers \cup {<<path, t>>}
    /\ new_closed' = Append(new_closed, path)
    /\ idx' = idx + 1
    /\ pc' = "for"
    /\ FreshOpn
    /\ UNCHANGED <<snapshot, usb_lock, op, ret, handle, hid, new_devices, sgn, opened>>

\* get_address reads a response of another type: Ok(None), which
\* read_device_info turns into ClosedDevice(path) and update_devices into a
\* push to closed_devices
GetAddressNone ==
    /\ op = "update_devices" /\ pc = "get_address"
    /\ Sent([type |-> "EthereumGetAddress"])
    /\ \E t \in AddressReplies :
          /\ ~IsAddress(t)
          /\ Read(t)
          /\ answers' = answers \cup {<<path, t>>}
    /\ new_closed' = Append(new_closed, path)
    /\ idx' = idx + 1
    /\ handle' = "none"
    /\ pc' = "for"
    /\ FreshOpn
    /\ UNCHANGED <<snapshot, usb_lock, op, ret, hid, new_devices, sgn, opened>>

\* faulty variant: a device whose query cannot be sent is skipped and the loop goes on
GetAddressSendErrSkips ==
    /\ op = "update_devices" /\ pc = "get_address"
    /\ idx' = idx + 1
    /\ handle' = "none"
    /\ pc' = "for"
    /\ FreshOpn
    /\ UNCHANGED <<snapshot, usb_lock, op, ret, hid, new_devices, new_closed, sgn, io>>

\* the send fails: Err(e), passed up to update_devices, which returns it
GetAddressSendErr ==
    /\ op = "update_devices" /\ pc = "get_address"
    /\ \E e \in IoErrors : Return(Err(e))
    /\ UNCHANGED <<snapshot, upd, opn, sgn, io>>

\* the read fails, or the EthereumAddress does not parse: Err(e), passed up
GetAddressReadErr ==
    /\ op = "update_devices" /\ pc = "get_address"
    /\ Sent([type |-> "EthereumGetAddress"])
    /\ \/ /\ \E e \in IoErrors : Return(Err(e))
          /\ UNCHANGED <<n_read, last_resp, answers>>
       \/ /\ Return(Err(ParseError))
          /\ Read("EthereumAddress")
          /\ answers' = answers \cup {<<path, "EthereumAddress">>}
    /\ UNCHANGED <<snapshot, upd, opn, sgn, opened>>

\* the for loop is over: the snapshot is replaced, Ok(count)
UpdateReturn ==
    /\ op = "update_devices" /\ pc = "for"
    /\ idx > Len(hid)
    /\ devices' = new_devices
    /\ closed_devices' = new_closed
    /\ Return(Ok(Len(new_devices)))
    /\ UNCHANGED <<upd, opn, sgn, io>>

-----------------------------------------------------------------------------
(* pin_matrix_ack *)

\* pin_matrix_ack up to open_path: the lock is taken
PinMatrixAck ==
    /\ op = "none"
    /\ \E p \in Paths, n \in Pins :
          /\ EnterOpenPath(p)
          /\ pin' = n
    /\ usb_lock' = "held"
    /\ op' = "pin_matrix_ack"
    /\ UNCHANGED <<snapshot, ret, handle, upd, address, data_len, network_id,
                   rest, depth, bytes_inline, bytes_acked, requested, dev_sig, io>>

\* faulty variant: every answer but a Failure counts as unlocked
UnlockedUnlessFailure(t) == t # "Failure"

\* MessageType_EthereumAddress => Ok(true), _ => Ok(false)
Unlocked(t) == IsAddress(t)

\* the PinMatrixAck cannot be sent: Err(e)
PinSendErr ==
    /\ op = "pin_matrix_ack" /\ pc = "pin_matrix_ack"
    /\ \E e \in IoErrors : Return(Err(e))
    /\ UNCHANGED <<snapshot, upd, opn, sgn, io>>

\* the PinMatrixAck is sent, the read fails: Err(e)
PinReadErr ==
    /\ op = "pin_matrix_ack" /\ pc = "pin_matrix_ack"
    /\ Sent([type |-> "PinMatrixAck", pin |-> pin])
    /\ \E e \in IoErrors : Return(Err(e))
    /\ UNCHANGED <<snapshot, upd, opn, sgn, opened, answers, n_read, last_resp>>

\* the PinMatrixAck is sent, one response is read and matched
PinResponse ==
    /\ op = "pin_matrix_ack" /\ pc = "pin_matrix_ack"
    /\ Sent([type |-> "PinMatrixAck", pin |-> pin])
    /\ \E t \in AddressReplies :
          /\ Read(t)
          /\ Return(Ok(Unlocked(t)))
    /\ UNCHANGED <<snapshot, upd, opn, sgn, opened, answers>>

-----------------------------------------------------------------------------
(* sign_transaction *)

\* t_info.data.len(): the lengths around the inline chunk, and a long one
DataLens == {0, 1, 1023, 1024, 1025, 5000}

\* t_info.network_id: none, 1, 2^31 and 2^32 + 1
NetworkIds ==
    { NoChain, Small(1), <<0, 32768, 0, 0, 0>>, <<1, 0, 1, 0, 0>> }

\* the (r, s) a device may sign with
DeviceRS == { <<"r1", "s1">>, <<"r2", "s2">> }

\* faulty variant: the locked devices are looked up as well
FindDeviceAny(devs, closed, addr) ==
    IF \E i \in 1..Len(devs) : devs[i].address = addr
    THEN devs[CHOOSE i \in 1..Len(devs) :
                /\ devs[i].address = addr
                /\ \A j \in 1..(i - 1) : devs[j].address # addr].path
    ELSE IF \E i \in 1..Len(closed) : AddressOf(closed[i]) = addr
    THEN closed[CHOOSE i \in 1..Len(closed) : AddressOf(closed[i]) = addr]
    ELSE "none"

\* self.devices.iter().find(|d| &d.info.address == address): the path of the
\* first record with the address, "none" when there is none
FindDevice(devs, closed, addr) ==
    IF \E i \in 1..Len(devs) : devs[i].address = addr
    THEN devs[CHOOSE i \in 1..Len(devs) :
                /\ devs[i].address = addr
                /\ \A j \in 1..(i - 1) : devs[j].address # addr].path
    ELSE "none"

\* sign_transaction when the lookup finds no record: .ok_or(KeyNotFound)?
SignTransactionNotFound ==
    /\ op = "none"
    /\ \E a \in Addresses, n \in DataLens, c \in NetworkIds :
          /\ FindDevice(devices, closed_devices, a) = "none"
          /\ address' = a
          /\ data_len' = n
          /\ network_id' = c
    /\ op' = "sign_transaction"
    /\ ret' = Err("KeyNotFound")
    /\ pc' = "return"
    /\ UNCHANGED <<snapshot, usb_lock, handle, upd, opn, rest, depth,
                   bytes_inline, bytes_acked, requested, dev_sig, pin, io>>

\* sign_transaction when the lookup finds a record: the lock is taken and
\* the record's path is opened
SignTransaction ==
    /\ op = "none"
    /\ \E a \in Addresses, n \in DataLens, c \in NetworkIds :
          /\ FindDevice(devices, closed_devices, a) # "none"
          /\ address' = a
          /\ data_len' = n
          /\ network_id' = c
          /\ EnterOpenPath(FindDevice(devices, closed_devices, a))
    /\ usb_lock' = "held"
    /\ op' = "sign_transaction"
    /\ UNCHANGED <<snapshot, ret, handle, upd, rest, depth,
                   bytes_inline, bytes_acked, requested, dev_sig, pin, io>>

\* let first_chunk_length = min(t_info.data.len(), 1024)
first_chunk_length(n) == Min(n, FIRST_CHUNK)

\* message.set_chain_id(n_id as u32), when there is a network id
ChainIdField(c) == IF c = NoChain THEN NoChain ELSE Trunc32(c)

\* the EthereumSignTx cannot be sent: Err(e)
SignTxSendErr ==
    /\ op = "sign_transaction" /\ pc = "sign_tx"
    /\ \E e \in IoErrors : Return(Err(e))
    /\ UNCHANGED <<snapshot, upd, opn, sgn, io>>

\* the EthereumSignTx is sent with the inline chunk data[0..first_chunk_length]
\* and the total length; signing_loop is called on data[first_chunk_length..]
SignTxSend ==
    /\ op = "sign_transaction" /\ pc = "sign_tx"
    /\ LET first == first_chunk_length(data_len)
       IN  /\ Sent([type |-> "EthereumSignTx", from |-> 0, len |-> first,
                    data_length |-> data_len, chain_id |-> ChainIdField(network_id)])
           /\ bytes_inline' = first
           /\ rest' = [off |-> first, len |-> data_len - first]
    /\ depth' = 1
    /\ pc' = "signing_loop"
    /\ LeaveOpenPath
    /\ UNCHANGED <<snapshot, usb_lock, op, ret, handle, upd, address, data_len,
                   network_id, bytes_acked, requested, dev_sig, pin,
                   opened, answers, n_read, last_resp>>

-----------------------------------------------------------------------------
(* signing_loop *)

\* the chunk lengths a device may ask for when n bytes are left: nothing,
\* one byte, a full chunk, all that is left, and one byte more than that
RequestLens(n) == {0, 1, FIRST_CHUNK, n, n + 1}

\* the v a device may answer with for chain id field c: the legacy 27 and
\* 28, and 35 + 2c and 36 + 2c in the device's 32 bits
DeviceVs(c) ==
    {Small(27), Small(28)} \cup
    (IF c = NoChain THEN {}
     ELSE { Trunc32(BigAdd(Small(35), BigAdd(c, c))),
            Trunc32(BigAdd(Small(36), BigAdd(c, c))) })

\* (v - (35 + 2 * c_id as u32)) as u8 and (v - 27) as u8, in u32 arithmetic:
\* the value modulo 2^32 cut to 8 bits, and whether an operation overflowed
RecoveryId(v, c) ==
    IF c = NoChain
    THEN [val |-> AsU8(WrapSub32(v, Small(27))),
          overflow |-> Less32(v, Small(27))]
    ELSE LET twice == BigAdd(Trunc32(c), Trunc32(c))
             sum == BigAdd(Small(35), Trunc32(twice))
         IN  [val |-> AsU8(WrapSub32(v, Trunc32(sum))),
              overflow |-> \/ ~Fits32(twice)
                           \/ ~Fits32(sum)
                           \/ Less32(v, Trunc32(sum))]

\* Signature::from_rsv(&r, &s, v)
from_rsv(r, s, v) == [r |-> r, s |-> s, v |-> v]

\* faulty variant: the chunk sent is one byte shorter than the length asked for
ChunkLenShort(len) == IF len > 0 THEN len - 1 ELSE 0

\* data[..len]: the length of the chunk sent
ChunkLen(len) == len

\* the read fails: Err(e)
LoopReadErr ==
    /\ op = "sign_transaction" /\ pc = "signing_loop"
    /\ \E e \in IoErrors : Return(Err(e))
    /\ UNCHANGED <<snapshot, upd, opn, sgn, io>>

\* faulty variant: a Cancel is acknowledged like a ButtonRequest and the loop goes on
LoopCancelGoesOn ==
    /\ op = "sign_transaction" /\ pc = "signing_loop"
    /\ depth <= MaxRounds
    /\ Read("Cancel")
    /\ Sent([type |-> "ButtonAck"])
    /\ depth' = depth + 1
    /\ UNCHANGED <<snapshot, ctl, upd, opn, address, data_len, network_id, rest,
                   bytes_inline, bytes_acked, requested, dev_sig, pin, opened, answers>>

\* MessageType_Cancel => Err(Error::UserCancel)
LoopCancel ==
    /\ op = "sign_transaction" /\ pc = "signing_loop"
    /\ Read("Cancel")
    /\ Return(Err("UserCancel"))
    /\ UNCHANGED <<snapshot, upd, opn, sgn, opened, queried, answers, n_sent, last_sent>>

\* faulty variant: a ButtonRequest is not acknowledged, the loop just reads on
LoopButtonRequestNoAck ==
    /\ op = "sign_transaction" /\ pc = "signing_loop"
    /\ Read("ButtonRequest")
    /\ depth <= MaxRounds
    /\ depth' = depth + 1
    /\ UNCHANGED <<snapshot, ctl, upd, opn, address, data_len, network_id, rest,
                   bytes_inline, bytes_acked, requested, dev_sig, pin, opened, answers,
                   queried, n_sent, last_sent>>

\* MessageType_ButtonRequest: a ButtonAck is sent, the thread sleeps 200 ms
\* and signing_loop calls itself with the same data; a failed send is Err(e)
LoopButtonRequest ==
    /\ op = "sign_transaction" /\ pc = "signing_loop"
    /\ Read("ButtonRequest")
    /\ \/ /\ depth <= MaxRounds
          /\ Sent([type |-> "ButtonAck"])
          /\ depth' = depth + 1
          /\ UNCHANGED <<ctl>>
       \/ /\ \E e \in IoErrors : Return(Err(e))
          /\ UNCHANGED <<depth, queried, n_sent, last_sent>>
    /\ UNCHANGED <<snapshot, upd, opn, address, data_len, network_id, rest,
                   bytes_inline, bytes_acked, requested, dev_sig, pin, opened, answers>>

\* MessageType_EthereumTxRequest with a data_length: data[..len] is sent in
\* an EthereumTxAck and signing_loop calls itself on data[len..]; the slice
\* panics when len is more than what is left; a failed send is Err(e)
LoopTxRequestChunk ==
    /\ op = "sign_transaction" /\ pc = "signing_loop"
    /\ Read("EthereumTxRequest")
    /\ \E len \in RequestLens(rest.len) :
          /\ requested' = requested + len
          /\ \/ /\ len <= rest.len
                /\ depth <= MaxRounds
                /\ Sent([type |-> "EthereumTxAck", from |-> rest.off, len |-> ChunkLen(len)])
                /\ bytes_acked' = bytes_acked + ChunkLen(len)
                /\ rest' = [off |-> rest.off + len, len |-> rest.len - len]
                /\ depth' = depth + 1
                /\ UNCHANGED <<ctl>>
             \/ /\ len <= rest.len
                /\ \E e \in IoErrors : Return(Err(e))
                /\ UNCHANGED <<bytes_acked, rest, depth, queried, n_sent, last_sent>>
             \/ /\ len > rest.len
                /\ Return(Panic)
                /\ UNCHANGED <<bytes_acked, rest, depth, queried, n_sent, last_sent>>
    /\ UNCHANGED <<snapshot, upd, opn, address, data_len, network_id,
                   bytes_inline, dev_sig, pin, opened, answers>>

\* MessageType_EthereumTxRequest without a data_length: the signature, its
\* v corrected. Where the u32 arithmetic overflows, a build with overflow
\* checks panics and one without them goes on with the wrapped value.
LoopTxRequestFinal ==
    /\ op = "sign_transaction" /\ pc = "signing_loop"
    /\ Read("EthereumTxRequest")
    /\ \E v \in DeviceVs(ChainIdField(network_id)), rs \in DeviceRS :
          /\ dev_sig' = [v |-> v, r |-> rs[1], s |-> rs[2]]
          /\ LET id == RecoveryId(v, network_id)
             IN  \/ Return(Ok(from_rsv(rs[1], rs[2], id.val)))
                 \/ /\ id.overflow
                    /\ Return(Panic)
    /\ UNCHANGED <<snapshot, upd, opn, address, data_len, network_id, rest, depth,
                   bytes_inline, bytes_acked, requested, pin,
                   opened, queried, answers, n_sent, last_sent>>

\* A ButtonRequest or a chunk request read when the stack has no room for
\* another frame: the acknowledgement is sent, the call of signing_loop at
\* line 313 or 322 overflows the stack and the process is aborted. Nothing
\* returns and no destructor runs.
LoopStackOverflow ==
    /\ op = "sign_transaction" /\ pc = "signing_loop"
    /\ depth > MaxRounds
    /\ \/ /\ Read("ButtonRequest")
          /\ Sent([type |-> "ButtonAck"])
          /\ UNCHANGED <<requested, bytes_acked, rest>>
       \/ /\ Read("EthereumTxRequest")
          /\ \E len \in RequestLens(rest.len) :
                /\ len <= rest.len
                /\ requested' = requested + len
                /\ Sent([type |-> "EthereumTxAck", from |-> rest.off, len |-> ChunkLen(len)])
                /\ bytes_acked' = bytes_acked + ChunkLen(len)
                /\ rest' = [off |-> rest.off + len, len |-> rest.len - len]
    /\ depth' = depth + 1
    /\ pc' = "abort"
    /\ UNCHANGED <<snapshot, usb_lock, op, ret, handle, upd, opn, address, data_len,
                   network_id, bytes_inline, dev_sig, pin, opened, answers>>

\* an EthereumTxRequest or a Failure whose payload does not parse: `?` turns
\* the ProtobufError into Err(Protocol("Could not read response ..."))
LoopParseErr ==
    /\ op = "sign_transaction" /\ pc = "signing_loop"
    /\ \E t \in {"EthereumTxRequest", "Failure"} : Read(t)
    /\ Return(Err(ParseError))
    /\ UNCHANGED <<snapshot, upd, opn, sgn, opened, queried, answers, n_sent, last_sent>>

\* MessageType_Failure, parsed: Err(Protocol("Last message sent failed"))
LoopFailure ==
    /\ op = "sign_transaction" /\ pc = "signing_loop"
    /\ Read("Failure")
    /\ Return(Err("Protocol: Last message sent failed"))
    /\ UNCHANGED <<snapshot, upd, opn, sgn, opened, queried, answers, n_sent, last_sent>>

\* _ => Err(Protocol("Unexpected response from Trezor device."))
LoopUnexpected ==
    /\ op = "sign_transaction" /\ pc = "signing_loop"
    /\ \E t \in SigningReplies \ {"Cancel", "ButtonRequest", "EthereumTxRequest", "Failure"} :
          Read(t)
    /\ Return(Err("Protocol: Unexpected response from Trezor device."))
    /\ UNCHANGED <<snapshot, upd, opn, sgn, opened, queried, answers, n_sent, last_sent>>

-----------------------------------------------------------------------------
(* Threads: several threads calling into managers that share one HidApi *)

\* the threads, and the managers built on the same Arc<Mutex<HidApi>>
Threads == {"t1", "t2", "t3"}

Managers == {"m1", "m2"}

\* two threads share the first manager, the third has the second
ManagerOf(t) == IF t = "t3" THEN "m2" ELSE "m1"

\* the enumerations a refresh of a manager sees here: none, one Trezor
\* and, for the first manager, a device of another usage page and a
\* Trezor, and two Trezors
ThreadEnums(m) ==
    { e \in Enumerations :
        \/ Len(e) = 0
        \/ (Len(e) = 1 /\ e[1].path = "p1")
        \/ /\ m = "m1"
           /\ Len(e) = 2
           /\ e[1].path \in {"xu", "p1"}
           /\ e[2].path \in {"p1", "p2"} }

\* what the threads do: the first two call every method of their manager,
\* the third is the second manager's refresh thread and unlocks devices
ThreadOps(t) ==
    IF t = "t3" THEN {"update_devices", "pin_matrix_ack"}
    ELSE {"update_devices", "pin_matrix_ack", "sign_transaction",
          "list_devices", "device_info", "get_devices"}

\* the paths a caller of pin_matrix_ack names here
ThreadPaths == {"p1", "gone"}

\* the methods that only read the snapshot
Readers == {"list_devices", "device_info", "get_devices"}

NoLists == [active |-> <<>>, closed |-> <<>>]

InitThreadVars ==
    /\ mutex = "free"
    /\ m_devices = [m \in Managers |-> <<>>]
    /\ m_closed = [m \in Managers |-> <<>>]
    /\ committed = [m \in Managers |-> NoLists]
    /\ t_op = [t \in Threads |-> "none"]
    /\ t_pc = [t \in Threads |-> "idle"]
    /\ t_path = [t \in Threads |-> "none"]
    /\ t_tries = [t \in Threads |-> 0]
    /\ t_handle = [t \in Threads |-> "none"]
    /\ t_hid = [t \in Threads |-> <<>>]
    /\ t_idx = [t \in Threads |-> 0]
    /\ t_new = [t \in Threads |-> NoLists]
    /\ t_ret = [t \in Threads |-> <<>>]

\* faulty variant: a method taking &self may run while update_devices runs
MayBorrowAlways(m, t) == TRUE

\* &self: a shared borrow of manager m is possible unless a thread is in
\* update_devices, which has the manager borrowed mutably
MayBorrow(m, t) ==
    \A u \in Threads \ {t} : ManagerOf(u) = m => t_op[u] # "update_devices"

\* &mut self: the mutable borrow of manager m is possible only when no
\* other thread is in any method of it
MayBorrowMut(m, t) ==
    \A u \in Threads \ {t} : ManagerOf(u) = m => t_op[u] = "none"

\* faulty variant: the guard is handed out whether or not the mutex is held
CanLockAlways(holder) == TRUE

\* self.usb.lock(): blocks while another thread holds the guard
CanLock(holder) == holder = "free"

\* a thread enters a method: its op and its position
Enter(t, o, p) ==
    /\ t_pc[t] = "idle"
    /\ t_op' = [t_op EXCEPT ![t] = o]
    /\ t_pc' = [t_pc EXCEPT ![t] = p]

Goto(t, p) == t_pc' = [t_pc EXCEPT ![t] = p]

\* update_devices(&mut self) is called
TUpdateDevices(t) ==
    /\ "update_devices" \in ThreadOps(t)
    /\ MayBorrowMut(ManagerOf(t), t)
    /\ Enter(t, "update_devices", "lock")
    /\ UNCHANGED <<tshared, t_path, t_tries, t_handle, t_hid, t_idx, t_new, t_ret>>

\* pin_matrix_ack(&self, device_path, pin) is called
TPinMatrixAck(t) ==
    /\ "pin_matrix_ack" \in ThreadOps(t)
    /\ MayBorrow(ManagerOf(t), t)
    /\ Enter(t, "pin_matrix_ack", "lock")
    /\ \E p \in ThreadPaths : t_path' = [t_path EXCEPT ![t] = p]
    /\ UNCHANGED <<tshared, t_tries, t_handle, t_hid, t_idx, t_new, t_ret>>

\* sign_transaction(&self, address, t_info) is called: the lookup in
\* self.devices, and KeyNotFound when it finds nothing
TSignTransaction(t) ==
    /\ "sign_transaction" \in ThreadOps(t)
    /\ MayBorrow(ManagerOf(t), t)
    /\ \E a \in Addresses :
          LET m == ManagerOf(t)
              p == FindDevice(m_devices[m], m_closed[m], a)
          IN  /\ t_path' = [t_path EXCEPT ![t] = p]
              /\ Enter(t, "sign_transaction", IF p = "none" THEN "leave" ELSE "lock")
    /\ UNCHANGED <<tshared, t_tries, t_handle, t_hid, t_idx, t_new, t_ret>>

\* list_devices(&self), device_info(&self, address) or
\* message(&self, "get_devices", ..) is called
TReaderCall(t) ==
    /\ MayBorrow(ManagerOf(t), t)
    /\ \E r \in Readers \cap ThreadOps(t) : Enter(t, r, "reading")
    /\ UNCHANGED <<tshared, t_path, t_tries, t_handle, t_hid, t_idx, t_new, t_ret>>

\* the reader reads its list: self.devices.iter()..., or &self.closed_devices
TReaderRead(t) ==
    /\ t_pc[t] = "reading"
    /\ LET m == ManagerOf(t)
       IN  t_ret' = [t_ret EXCEPT ![t] =
                        IF t_op[t] = "get_devices" THEN m_closed[m] ELSE m_devices[m]]
    /\ Goto(t, "leave")
    /\ UNCHANGED <<tshared, t_op, t_path, t_tries, t_handle, t_hid, t_idx, t_new>>

\* a method that holds no guard returns
TLeave(t) ==
    /\ t_pc[t] = "leave"
    /\ t_op' = [t_op EXCEPT ![t] = "none"]
    /\ Goto(t, "idle")
    /\ t_path' = [t_path EXCEPT ![t] = "none"]
    /\ t_ret' = [t_ret EXCEPT ![t] = <<>>]
    /\ UNCHANGED <<tshared, t_tries, t_handle, t_hid, t_idx, t_new>>

\* let usb = self.usb.lock()
TLock(t) ==
    /\ t_pc[t] = "lock"
    /\ CanLock(mutex)
    /\ mutex' = t
    /\ Goto(t, IF t_op[t] = "update_devices" THEN "refresh" ELSE "opening")
    /\ t_tries' = [t_tries EXCEPT ![t] = 0]
    /\ UNCHANGED <<m_devices, m_closed, committed, t_op, t_path, t_handle,
                   t_hid, t_idx, t_new, t_ret>>

\* usb.refresh_devices() is entered
TRefreshBegin(t) ==
    /\ t_pc[t] = "refresh"
    /\ Goto(t, "refreshing")
    /\ UNCHANGED <<tshared, t_op, t_path, t_tries, t_handle, t_hid, t_idx, t_new, t_ret>>

\* the enumeration is done: usb.devices(), the two empty lists
TRefreshEnd(t) ==
    /\ t_pc[t] = "refreshing"
    /\ \E e \in ThreadEnums(ManagerOf(t)) : t_hid' = [t_hid EXCEPT ![t] = e]
    /\ t_idx' = [t_idx EXCEPT ![t] = 1]
    /\ t_new' = [t_new EXCEPT ![t] = NoLists]
    /\ Goto(t, "for")
    /\ UNCHANGED <<tshared, t_op, t_path, t_tries, t_handle, t_ret>>

\* the for loop at a device the filter rejects
TContinue(t) ==
    /\ t_pc[t] = "for"
    /\ t_idx[t] <= Len(t_hid[t])
    /\ Mismatch(t_hid[t][t_idx[t]])
    /\ t_idx' = [t_idx EXCEPT ![t] = @ + 1]
    /\ UNCHANGED <<tshared, t_op, t_pc, t_path, t_tries, t_handle, t_hid, t_new, t_ret>>

\* the for loop at a device the filter keeps: read_device_info, open_path
TReadDeviceInfo(t) ==
    /\ t_pc[t] = "for"
    /\ t_idx[t] <= Len(t_hid[t])
    /\ ~Mismatch(t_hid[t][t_idx[t]])
    /\ t_path' = [t_path EXCEPT ![t] = t_hid[t][t_idx[t]].path]
    /\ t_tries' = [t_tries EXCEPT ![t] = 0]
    /\ Goto(t, "opening")
    /\ UNCHANGED <<tshared, t_op, t_handle, t_hid, t_idx, t_new, t_ret>>

\* open_path's loop: f(), that is usb.open_path(path), returns the handle
TOpenOk(t) ==
    /\ t_pc[t] = "opening"
    /\ OpenLoopRuns(t_tries[t])
    /\ t_handle' = [t_handle EXCEPT ![t] = t_path[t]]
    /\ t_tries' = [t_tries EXCEPT ![t] = 0]
    /\ Goto(t, "io")
    /\ UNCHANGED <<tshared, t_op, t_path, t_hid, t_idx, t_new, t_ret>>

\* f() fails: the thread sleeps with the guard held and the loop goes round
TOpenErr(t) ==
    /\ t_pc[t] = "opening"
    /\ OpenLoopRuns(t_tries[t])
    /\ t_tries' = [t_tries EXCEPT ![t] = @ + 1]
    /\ UNCHANGED <<tshared, t_op, t_pc, t_path, t_handle, t_hid, t_idx, t_new, t_ret>>

\* open_path gives up: every caller returns the error
TOpenExhausted(t) ==
    /\ t_pc[t] = "opening"
    /\ ~OpenLoopRuns(t_tries[t])
    /\ t_tries' = [t_tries EXCEPT ![t] = 0]
    /\ Goto(t, "return")
    /\ UNCHANGED <<tshared, t_op, t_path, t_handle, t_hid, t_idx, t_new, t_ret>>

\* read_device_info's get_address: the device is pushed to one of the two
\* lists and the handle dropped at the end of read_device_info, or the
\* error is returned
TGetAddress(t) ==
    /\ t_pc[t] = "io"
    /\ t_op[t] = "update_devices"
    /\ \/ /\ \E kind \in {"active", "closed"} :
                t_new' = [t_new EXCEPT ![t] =
                    IF kind = "active"
                    THEN [@ EXCEPT !.active =
                            Append(@, [path |-> t_path[t], address |-> AddressOf(t_path[t])])]
                    ELSE [@ EXCEPT !.closed = Append(@, t_path[t])]]
          /\ t_handle' = [t_handle EXCEPT ![t] = "none"]
          /\ t_idx' = [t_idx EXCEPT ![t] = @ + 1]
          /\ t_path' = [t_path EXCEPT ![t] = "none"]
          /\ Goto(t, "for")
       \/ /\ Goto(t, "return")
          /\ UNCHANGED <<t_new, t_handle, t_idx, t_path>>
    /\ UNCHANGED <<tshared, t_op, t_tries, t_hid, t_ret>>

\* the message exchange of pin_matrix_ack or of sign_transaction, whatever
\* its outcome
TExchange(t) ==
    /\ t_pc[t] = "io"
    /\ t_op[t] \in {"pin_matrix_ack", "sign_transaction"}
    /\ Goto(t, "return")
    /\ UNCHANGED <<tshared, t_op, t_path, t_tries, t_handle, t_hid, t_idx, t_new, t_ret>>

\* self.devices = new_devices
TStoreDevices(t) ==
    /\ t_pc[t] = "for"
    /\ t_idx[t] > Len(t_hid[t])
    /\ m_devices' = [m_devices EXCEPT ![ManagerOf(t)] = t_new[t].active]
    /\ Goto(t, "store_closed")
    /\ UNCHANGED <<mutex, m_closed, committed, t_op, t_path, t_tries, t_handle,
                   t_hid, t_idx, t_new, t_ret>>

\* self.closed_devices = closed_devices; Ok(count)
TStoreClosed(t) ==
    /\ t_pc[t] = "store_closed"
    /\ m_closed' = [m_closed EXCEPT ![ManagerOf(t)] = t_new[t].closed]
    /\ committed' = [committed EXCEPT ![ManagerOf(t)] = t_new[t]]
    /\ Goto(t, "return")
    /\ UNCHANGED <<mutex, m_devices, t_op, t_path, t_tries, t_handle,
                   t_hid, t_idx, t_new, t_ret>>

\* the locals are dropped in reverse order of declaration: the lists and
\* the handle, all declared after the guard, go first
TDropHandle(t) ==
    /\ t_pc[t] = "return"
    /\ t_handle' = [t_handle EXCEPT ![t] = "none"]
    /\ t_path' = [t_path EXCEPT ![t] = "none"]
    /\ t_hid' = [t_hid EXCEPT ![t] = <<>>]
    /\ t_idx' = [t_idx EXCEPT ![t] = 0]
    /\ t_new' = [t_new EXCEPT ![t] = NoLists]
    /\ Goto(t, "unlock")
    /\ UNCHANGED <<tshared, t_op, t_tries, t_ret>>

\* then the MutexGuard; the method has returned
TUnlock(t) ==
    /\ t_pc[t] = "unlock"
    /\ mutex' = "free"
    /\ t_op' = [t_op EXCEPT ![t] = "none"]
    /\ Goto(t, "idle")
    /\ UNCHANGED <<m_devices, m_closed, committed, t_path, t_tries, t_handle,
                   t_hid, t_idx, t_new, t_ret>>

-----------------------------------------------------------------------------
(* The specifications *)

Init == InitFrameVars /\ InitMgrVars /\ InitThreadVars

InitFrame == InitFrameVars /\ InitMgrVars /\ InitThreadVars

NextFrame ==
    \/ SendDeviceMessage /\ UNCHANGED <<mvars, tvars>>
    \/ SendFollowUp /\ UNCHANGED <<mvars, tvars>>
    \/ NextMessage /\ UNCHANGED <<mvars, tvars>>
    \/ DeviceSends /\ UNCHANGED <<mvars, tvars>>
    \/ ReadFirst /\ UNCHANGED <<mvars, tvars>>
    \/ ReadNext /\ UNCHANGED <<mvars, tvars>>
    \/ ReadReturn /\ UNCHANGED <<mvars, tvars>>
    \/ FrameDone /\ UNCHANGED <<mvars, tvars>>

SpecFrame == InitFrame /\ [][NextFrame]_vars

Next ==
    \/ UpdateDevices /\ UNCHANGED <<fvars, tvars>>
    \/ UpdateContinue /\ UNCHANGED <<fvars, tvars>>
    \/ ReadDeviceInfo /\ UNCHANGED <<fvars, tvars>>
    \/ OpenPathOk /\ UNCHANGED <<fvars, tvars>>
    \/ OpenPathErr /\ UNCHANGED <<fvars, tvars>>
    \/ OpenPathExhausted /\ UNCHANGED <<fvars, tvars>>
    \/ GetAddressSome /\ UNCHANGED <<fvars, tvars>>
    \/ GetAddressNone /\ UNCHANGED <<fvars, tvars>>
    \/ GetAddressSendErr /\ UNCHANGED <<fvars, tvars>>
    \/ GetAddressReadErr /\ UNCHANGED <<fvars, tvars>>
    \/ UpdateReturn /\ UNCHANGED <<fvars, tvars>>
    \/ PinMatrixAck /\ UNCHANGED <<fvars, tvars>>
    \/ PinSendErr /\ UNCHANGED <<fvars, tvars>>
    \/ PinReadErr /\ UNCHANGED <<fvars, tvars>>
    \/ PinResponse /\ UNCHANGED <<fvars, tvars>>
    \/ SignTransactionNotFound /\ UNCHANGED <<fvars, tvars>>
    \/ SignTransaction /\ UNCHANGED <<fvars, tvars>>
    \/ SignTxSendErr /\ UNCHANGED <<fvars, tvars>>
    \/ SignTxSend /\ UNCHANGED <<fvars, tvars>>
    \/ LoopReadErr /\ UNCHANGED <<fvars, tvars>>
    \/ LoopCancel /\ UNCHANGED <<fvars, tvars>>
    \/ LoopButtonRequest /\ UNCHANGED <<fvars, tvars>>
    \/ LoopTxRequestChunk /\ UNCHANGED <<fvars, tvars>>
    \/ LoopTxRequestFinal /\ UNCHANGED <<fvars, tvars>>
    \/ LoopParseErr /\ UNCHANGED <<fvars, tvars>>
    \/ LoopFailure /\ UNCHANGED <<fvars, tvars>>
    \/ LoopUnexpected /\ UNCHANGED <<fvars, tvars>>
    \/ LoopStackOverflow /\ UNCHANGED <<fvars, tvars>>
    \/ Drop /\ UNCHANGED <<fvars, tvars>>

Spec == Init /\ [][Next]_vars

NextThreads ==
    \E t \in Threads :
        \/ TUpdateDevices(t) /\ UNCHANGED <<fvars, mvars>>
        \/ TPinMatrixAck(t) /\ UNCHANGED <<fvars, mvars>>
        \/ TSignTransaction(t) /\ UNCHANGED <<fvars, mvars>>
        \/ TReaderCall(t) /\ UNCHANGED <<fvars, mvars>>
        \/ TReaderRead(t) /\ UNCHANGED <<fvars, mvars>>
        \/ TLeave(t) /\ UNCHANGED <<fvars, mvars>>
        \/ TLock(t) /\ UNCHANGED <<fvars, mvars>>
        \/ TRefreshBegin(t) /\ UNCHANGED <<fvars, mvars>>
        \/ TRefreshEnd(t) /\ UNCHANGED <<fvars, mvars>>
        \/ TContinue(t) /\ UNCHANGED <<fvars, mvars>>
        \/ TReadDeviceInfo(t) /\ UNCHANGED <<fvars, mvars>>
        \/ TOpenOk(t) /\ UNCHANGED <<fvars, mvars>>
        \/ TOpenErr(t) /\ UNCHANGED <<fvars, mvars>>
        \/ TOpenExhausted(t) /\ UNCHANGED <<fvars, mvars>>
        \/ TGetAddress(t) /\ UNCHANGED <<fvars, mvars>>
        \/ TExchange(t) /\ UNCHANGED <<fvars, mvars>>
        \/ TStoreDevices(t) /\ UNCHANGED <<fvars, mvars>>
        \/ TStoreClosed(t) /\ UNCHANGED <<fvars, mvars>>
        \/ TDropHandle(t) /\ UNCHANGED <<fvars, mvars>>
        \/ TUnlock(t) /\ UNCHANGED <<fvars, mvars>>

SpecThreads == Init /\ [][NextThreads]_vars

-----------------------------------------------------------------------------
(* Claims about the frame codec *)

\* the concatenation of the body bytes of the reports written
RECURSIVE WrittenBody(_)
WrittenBody(k) ==
    IF k = 0 THEN <<>> ELSE WrittenBody(k - 1) \o SubSeq(written[k], 3, Len(written[k]))

\* C1: framing round-trip. Whenever read_device_response has finished on the
\* reports send_device_message wrote (the report-id byte removed by the
\* transport), it has succeeded and returned exactly the message type and
\* exactly the payload bytes that were sent.
C1_RoundTrip ==
    (origin = "host" /\ fpc \in {"returned", "failed"})
        => fresult = [ok |-> TRUE, type |-> msg_id, bytes |-> message]

\* C1 witness: a 5000-byte payload whose last byte is not zero has made the
\* round trip.
C1_Witness ==
    /\ origin = "host"
    /\ fpc = "returned"
    /\ Len(message) = 5000
    /\ message[5000] # 0
    /\ fresult.ok
    /\ fresult.bytes = message
    /\ fresult.type = msg_id

\* C2: the body send_device_message builds has a length that is a multiple
\* of 63, every report written is 65 bytes: 0, '?', then 63 body bytes, the
\* body starts with the 8 header bytes and the payload, and every body byte
\* after the payload is zero.
C2_ReportShape ==
    origin = "host" =>
        LET body == WrittenBody(Len(written))
            n == Len(message)
        IN  /\ Len(Body(msg_id, message)) % 63 = 0
            /\ body = Body(msg_id, message)
            /\ Len(written) >= 1
            /\ \A k \in 1..Len(written) :
                  /\ Len(written[k]) = 65
                  /\ written[k][1] = 0
                  /\ written[k][2] = QMARK
            /\ SubSeq(body, 1, 8) =
                  << HASH, HASH, msg_id \div 256, msg_id % 256,
                     n \div 16777216, (n \div 65536) % 256, (n \div 256) % 256, n % 256 >>
            /\ SubSeq(body, 9, 8 + n) = message
            /\ \A i \in (8 + n + 1)..Len(body) : body[i] = 0

\* C2 witness: a message whose payload ends with a non-zero byte in the
\* middle of a report has been written in three reports.
C2_Witness ==
    /\ origin = "host"
    /\ Len(message) = 119
    /\ message[119] # 0
    /\ Len(written) = 3
    /\ written[3][65] = 0

-----------------------------------------------------------------------------
(* Claims about open_path *)

\* C3: open_path invokes the opener once per round until its first success
\* or until 10 rounds. While it loops every invocation so far has failed;
\* when it returns the handle the last invocation was the first success, the
\* k-th of at most 10; when it gives up the opener has been invoked exactly
\* 10 times and the error returned is that of the 10th invocation, not
\* KeyNotFound.
C3_OpenPathRetry ==
    /\ pc = "open_path" =>
          /\ opener_calls <= 10
          /\ opener_last # "ok"
          /\ handle = "none"
          /\ (opener_calls > 0 => err = opener_last)
    /\ pc \in {"get_address", "pin_matrix_ack", "sign_tx"} =>
          /\ opener_last = "ok"
          /\ opener_calls \in 1..10
          /\ (opener_calls > 1 => opener_prev \in OpenErrors)
          /\ handle = path
    /\ (pc = "return" /\ opener_last \in OpenErrors) =>
          /\ opener_calls = 10
          /\ ret = [ok |-> FALSE, err |-> opener_last]
          /\ ret.err # "KeyNotFound"
          /\ handle = "none"

\* C3 witness: the opener failed ten times, the ninth time with another
\* error than the tenth, and the tenth error is returned.
C3_Witness ==
    /\ pc = "return"
    /\ opener_calls = 10
    /\ opener_prev = "open: e1"
    /\ opener_last = "open: e2"
    /\ ret = [ok |-> FALSE, err |-> "open: e2"]

-----------------------------------------------------------------------------
(* Claims about sign_transaction and signing_loop *)

SignReturned == op = "sign_transaction" /\ pc = "return"

\* C4 as stated: whenever sign_transaction returns a signature, the bytes of
\* the inline chunk plus the bytes of all EthereumTxAck chunks equal the
\* declared total data length, whatever chunk lengths the device asked for.
C4_DataConservation ==
    (SignReturned /\ ret.ok) => bytes_inline + bytes_acked = data_len

\* C4 amended: whenever sign_transaction returns a signature, the inline
\* chunk holds min(length, 1024) bytes, the bytes sent are those plus the sum
\* of the chunk lengths the device asked for, they never exceed the declared
\* total length, and they equal it exactly when the device asked for all of
\* the remainder before it completed.
C4_DataConservationAmended ==
    (SignReturned /\ ret.ok) =>
        /\ bytes_inline = (IF data_len < 1024 THEN data_len ELSE 1024)
        /\ bytes_inline + bytes_acked = bytes_inline + requested
        /\ bytes_inline + bytes_acked <= data_len
        /\ (bytes_inline + bytes_acked = data_len <=> requested = data_len - bytes_inline)
        /\ rest = [off |-> bytes_inline + bytes_acked,
                   len |-> data_len - (bytes_inline + bytes_acked)]

\* C4 witness: 5000 bytes of data have been sent in full, 1024 inline and
\* the rest in four chunks, and the signature has been returned.
C4_Witness ==
    /\ SignReturned
    /\ ret.ok
    /\ data_len = 5000
    /\ bytes_inline = 1024
    /\ bytes_acked = 3976
    /\ n_sent = 5

\* the chain-id offset 35 + 2 * chainId (27 without a chain id), exact
ExactOffset(c) ==
    IF c = NoChain THEN Small(27) ELSE BigAdd(Small(35), BigAdd(c, c))

\* C5 as stated: the signature returned has the device's r and s, and its
\* recovery id is v - (35 + 2 * chainId) when the descriptor carries a chain
\* id and v - 27 when it carries none, i.e. v = recovery id + offset.
C5_ChainIdCorrection ==
    (SignReturned /\ ret.ok) =>
        /\ ret.val.r = dev_sig.r
        /\ ret.val.s = dev_sig.s
        /\ dev_sig.v = BigAdd(Small(ret.val.v), ExactOffset(network_id))

-----------------------------------------------------------------------------
(* Claims about pin_matrix_ack *)

\* C6: when pin_matrix_ack returns a value it has sent exactly one message,
\* a PinMatrixAck carrying the PIN, and read exactly one response, and the
\* value is true exactly when that response is an EthereumAddress; a failed
\* call has sent at most that message and read nothing.
C6_PinAckMapping ==
    (op = "pin_matrix_ack" /\ pc = "return") =>
        /\ ret.ok =>
              /\ n_sent = 1
              /\ last_sent = [type |-> "PinMatrixAck", pin |-> pin]
              /\ n_read = 1
              /\ ret.val \in BOOLEAN
              /\ ret.val = (last_resp = "EthereumAddress")
        /\ ~ret.ok => (n_sent <= 1 /\ n_read = 0)

\* C6 witness: the device answered the PIN with a message that is neither an
\* address nor a Failure, and pin_matrix_ack returned false.
C6_Witness ==
    /\ op = "pin_matrix_ack"
    /\ pc = "return"
    /\ last_resp = "PinMatrixRequest"
    /\ ret = [ok |-> TRUE, val |-> FALSE]
    /\ n_sent = 1

-----------------------------------------------------------------------------
(* Claims about update_devices *)

UpdateReturned == op = "update_devices" /\ pc = "return"

InList(list, p) == \E i \in 1..Len(list) : list[i] = p

Count(list, p) == Cardinality({i \in 1..Len(list) : list[i] = p})

ActivePaths == [i \in 1..Len(devices) |-> devices[i].path]

\* C7: after a successful update_devices a device whose vendor id, product
\* id or usage page differs from the constants is in neither list and was
\* neither opened nor queried; every other device of the enumeration is in
\* exactly one list, the active one when its address query was answered with
\* an EthereumAddress and the locked one when it was answered with another
\* type; the lists hold nothing else; the count returned is the number of
\* active records.
C7_DiscoveryClassification ==
    (UpdateReturned /\ ret.ok) =>
        /\ \A i \in 1..Len(hid) :
              LET d == hid[i]
                  matches == /\ d.vendor_id = 21324
                             /\ d.product_id = 1
                             /\ d.usage_page = 65280
              IN  /\ ~matches =>
                        /\ d.path \notin opened
                        /\ d.path \notin queried
                        /\ ~InList(ActivePaths, d.path)
                        /\ ~InList(closed_devices, d.path)
                  /\ matches =>
                        /\ Count(ActivePaths, d.path) + Count(closed_devices, d.path) = 1
                        /\ InList(ActivePaths, d.path)
                              <=> <<d.path, "EthereumAddress">> \in answers
                        /\ InList(closed_devices, d.path)
                              <=> \E t \in AddressReplies \ {"EthereumAddress"} :
                                      <<d.path, t>> \in answers
        /\ \A i \in 1..Len(devices) : \E j \in 1..Len(hid) : hid[j].path = devices[i].path
        /\ \A i \in 1..Len(closed_devices) : \E j \in 1..Len(hid) : hid[j].path = closed_devices[i]
        /\ ret.val = Len(devices)

\* C7 witness: a refresh over a device with another usage page, a Trezor
\* that answered with its address and a Trezor that answered with a Failure
\* has returned 1.
C7_Witness ==
    /\ UpdateReturned
    /\ ret = [ok |-> TRUE, val |-> 1]
    /\ Len(hid) = 3
    /\ hid[1].path = "xu"
    /\ devices = << [path |-> "p2", address |-> "a2"] >>
    /\ closed_devices = << "p1" >>
    /\ <<"p1", "Failure">> \in answers

\* C8: when opening or querying a device of the enumeration fails with
\* another error than the locked-device signal, update_devices returns that
\* error at that device: no device later in the enumeration is opened or
\* queried, and a refresh that is still running has classified every device
\* it has opened before the current one.
C8_FailFast ==
    /\ (UpdateReturned /\ ~ret.ok) =>
          /\ idx \in 1..Len(hid)
          /\ path = hid[idx].path
          /\ ret.err \in OpenErrors \cup IoErrors \cup {ParseError}
          /\ \A j \in (idx + 1)..Len(hid) :
                hid[j].path \notin opened /\ hid[j].path \notin queried
    /\ (op = "update_devices" /\ pc # "return") =>
          \A p \in opened :
              \/ (pc \in {"open_path", "get_address"} /\ p = path)
              \/ \E i \in 1..Len(new_devices) : new_devices[i].path = p
              \/ InList(new_closed, p)

\* C8 witness: the query of the first device failed on the USB layer, the
\* refresh returned the error, and a healthy Trezor second in the
\* enumeration was never opened.
C8_Witness ==
    /\ UpdateReturned
    /\ ret = [ok |-> FALSE, err |-> "Usb"]
    /\ Len(hid) = 2
    /\ idx = 1
    /\ hid[1].path = "p1"
    /\ hid[2].path = "p2"
    /\ opened = {"p1"}

-----------------------------------------------------------------------------
(* Claims about the responses that end signing *)

\* the error the claim gives for a response that ends the loop
TerminalError(t) ==
    CASE t = "Cancel" -> "UserCancel"
      [] t = "Failure" -> "Protocol: Last message sent failed"
      [] OTHER -> "Protocol: Unexpected response from Trezor device."

\* a step of signing_loop that reads a response other than a ButtonRequest
\* and an EthereumTxRequest
ReadsTerminal ==
    /\ op = "sign_transaction"
    /\ n_read' = n_read + 1
    /\ last_resp' \notin {"ButtonRequest", "EthereumTxRequest"}

\* C9 as stated: a step that reads a Cancel ends the call with UserCancel,
\* one that reads a Failure with "Last message sent failed", one that reads
\* any other type but ButtonRequest and EthereumTxRequest with "Unexpected
\* response"; the step sends nothing, and the call is over: its next step
\* leaves it.
C9_SigningTerminal ==
    [][ /\ ReadsTerminal =>
              /\ pc' = "return"
              /\ ret' = [ok |-> FALSE, err |-> TerminalError(last_resp')]
              /\ n_sent' = n_sent
        /\ (op = "sign_transaction" /\ pc = "return") => op' = "none" ]_vars

\* C9 amended: as stated, but a Failure whose payload cannot be parsed ends
\* the call with the protocol error "Could not read response from Trezor
\* Device" instead of "Last message sent failed".
C9_SigningTerminalAmended ==
    [][ /\ ReadsTerminal =>
              /\ pc' = "return"
              /\ \/ ret' = [ok |-> FALSE, err |-> TerminalError(last_resp')]
                 \/ /\ last_resp' = "Failure"
                    /\ ret' = [ok |-> FALSE,
                               err |-> "Protocol: Could not read response from Trezor Device"]
              /\ n_sent' = n_sent
        /\ (op = "sign_transaction" /\ pc = "return") => op' = "none" ]_vars

\* C9 witness: after a ButtonRequest and its ButtonAck the device answered
\* with a Failure, and the call has ended with "Last message sent failed"
\* without another message.
C9_Witness ==
    /\ SignReturned
    /\ last_resp = "Failure"
    /\ ret = [ok |-> FALSE, err |-> "Protocol: Last message sent failed"]
    /\ n_read = 2
    /\ n_sent = 2
    /\ last_sent = [type |-> "ButtonAck"]

\* C10: a sign_transaction for an address no record of the active snapshot
\* has is at its return with KeyNotFound, the lock free, no handle open,
\* the opener never invoked, nothing sent and nothing read; one that is past
\* the lookup works on the path of an active record with that address,
\* never on a path of the locked list.
C10_SignUnknownAddress ==
    op = "sign_transaction" =>
        /\ (\A i \in 1..Len(devices) : devices[i].address # address) =>
              /\ pc = "return"
              /\ ret = [ok |-> FALSE, err |-> "KeyNotFound"]
              /\ usb_lock = "free"
              /\ handle = "none"
              /\ opener_calls = 0
              /\ opened = {}
              /\ queried = {}
              /\ n_sent = 0
              /\ n_read = 0
        /\ (\E i \in 1..Len(devices) : devices[i].address = address) =>
              /\ ret # [ok |-> FALSE, err |-> "KeyNotFound"]
              /\ pc # "return" =>
                    /\ usb_lock = "held"
                    /\ \E i \in 1..Len(devices) :
                          devices[i].address = address /\ devices[i].path = path
                    /\ ~InList(closed_devices, path)

\* C10 witness: with one device active and the other locked, a signature was
\* asked for the locked device's address and KeyNotFound came back.
C10_Witness ==
    /\ SignReturned
    /\ ret = [ok |-> FALSE, err |-> "KeyNotFound"]
    /\ closed_devices = << "p1" >>
    /\ Len(devices) = 1
    /\ address = "a1"
    /\ usb_lock = "free"

-----------------------------------------------------------------------------
(* Claims about the rounds of signing_loop *)

\* a step of signing_loop that reads an EthereumTxRequest asking for a chunk
\* (one that carries no signature and parses)
ReadsChunkRequest ==
    /\ op = "sign_transaction" /\ pc = "signing_loop"
    /\ n_read' = n_read + 1
    /\ last_resp' = "EthereumTxRequest"
    /\ dev_sig' = NoSig
    /\ ret' # [ok |-> FALSE, err |-> ParseError]

\* a step of signing_loop that reads a ButtonRequest
ReadsButtonRequest ==
    /\ op = "sign_transaction" /\ pc = "signing_loop"
    /\ n_read' = n_read + 1
    /\ last_resp' = "ButtonRequest"

\* the step's send failed and the call ends with the I/O error
SendFailed ==
    /\ pc' = "return"
    /\ \E e \in IoErrors : ret' = [ok |-> FALSE, err |-> e]
    /\ n_sent' = n_sent
    /\ rest' = rest

\* C12 as stated: a step that reads a chunk request of length L sends (unless
\* the write itself fails) exactly one EthereumTxAck with exactly L bytes,
\* those that follow the bytes sent so far, and advances the offset by L;
\* the bytes sent are a prefix of the data and never more than its length,
\* whatever L the device asks for.
C12_ChunkTransfer ==
    [][ ReadsChunkRequest =>
          LET L == requested' - requested
          IN  \/ SendFailed
              \/ /\ n_sent' = n_sent + 1
                 /\ last_sent' = [type |-> "EthereumTxAck", from |-> rest.off, len |-> L]
                 /\ rest.off = bytes_inline + bytes_acked
                 /\ bytes_acked' = bytes_acked + L
                 /\ rest' = [off |-> rest.off + L, len |-> rest.len - L]
                 /\ bytes_inline' + bytes_acked' <= data_len ]_vars

\* C13: a step that reads a ButtonRequest leaves the rest of the data, the
\* data length and the chain id as they were and sends at most one message;
\* when the loop goes on to read again, that message was one ButtonAck and
\* every response read so far has been answered by exactly one message.
C13_ButtonRequestStep ==
    [][ ReadsButtonRequest =>
          /\ rest' = rest
          /\ network_id' = network_id
          /\ data_len' = data_len
          /\ bytes_acked' = bytes_acked
          /\ n_sent' \in {n_sent, n_sent + 1}
          /\ n_sent' = n_sent => SendFailed
          /\ pc' = "signing_loop" =>
                /\ n_sent' = n_sent + 1
                /\ last_sent' = [type |-> "ButtonAck"]
                /\ n_sent' = n_read' + 1 ]_vars

\* C13 witness: a ButtonRequest was acknowledged between two chunk requests:
\* it came after a chunk was sent and while data is left, and the loop reads on.
C13_Witness ==
    /\ op = "sign_transaction"
    /\ pc = "signing_loop"
    /\ last_resp = "ButtonRequest"
    /\ last_sent = [type |-> "ButtonAck"]
    /\ bytes_acked > 0
    /\ rest.len > 0
    /\ n_read >= 3

\* C14 as stated: the loop has no cap. A step that reads a response ending
\* the handshake (a completion, a Cancel, a Failure, an unexpected type)
\* returns from the call; a step that reads a ButtonRequest and sends its
\* ButtonAck stays in the loop, however many came before.
C14_SigningProgress ==
    [][ (op = "sign_transaction" /\ pc = "signing_loop" /\ n_read' = n_read + 1) =>
          /\ (\/ last_resp' \notin {"ButtonRequest", "EthereumTxRequest"}
              \/ (last_resp' = "EthereumTxRequest" /\ dev_sig' # NoSig))
                => pc' = "return"
          /\ (last_resp' = "ButtonRequest" /\ n_sent' = n_sent + 1)
                => (pc' = "signing_loop" /\ last_sent' = [type |-> "ButtonAck"]) ]_vars

\* C15 as stated: the signing loop runs in one stack frame however many
\* rounds the device issues.
C15_ConstantStackDepth ==
    op = "sign_transaction" => depth <= 1

-----------------------------------------------------------------------------
(* Claims about handles and about the snapshot *)

\* C16: no handle is open when no operation runs; open_path is entered, and
\* the refresh is at its for loop, only with no handle open, so a refresh
\* opens a device after it has closed the one before; the handle an
\* operation holds is one it opened itself on the path it works on; and the
\* step that leaves an operation, on whatever path, leaves the handle closed
\* and the lock free.
C16_HandleRelease ==
    /\ [](/\ op = "none" => (handle = "none" /\ opened = {})
          /\ pc \in {"for", "open_path"} => handle = "none"
          /\ handle # "none" => (handle = path /\ handle \in opened /\ op # "none"))
    /\ [][ (op # "none" /\ op' = "none") =>
              (pc = "return" /\ handle' = "none" /\ usb_lock' = "free") ]_vars

\* C16 witness: a refresh has opened, queried and closed two devices, one
\* active and one locked, and is back at its loop with no handle open.
C16_Witness ==
    /\ op = "update_devices"
    /\ pc = "for"
    /\ opened = {"p1", "p2"}
    /\ Len(new_devices) = 1
    /\ Len(new_closed) = 1
    /\ handle = "none"

\* C19: a step changes the snapshot only if it is the step of update_devices
\* that returns Ok, which stores the two lists it has built; every other
\* step of a refresh, the one that returns an error included, leaves both
\* lists as they are.
C19_FailedRefreshKeepsSnapshot ==
    [][ /\ (devices' # devices \/ closed_devices' # closed_devices) =>
              /\ op = "update_devices"
              /\ pc' = "return"
              /\ ret'.ok
              /\ devices' = new_devices
              /\ closed_devices' = new_closed
        /\ (op = "update_devices" /\ pc' = "return" /\ ~ret'.ok) =>
              (devices' = devices /\ closed_devices' = closed_devices) ]_vars

\* C19 witness: a refresh that had already classified one device as active
\* has returned an error on the next, and the snapshot still holds the other
\* lists of the refresh before: no active device and two locked ones.
C19_Witness ==
    /\ UpdateReturned
    /\ ~ret.ok
    /\ Len(new_devices) = 1
    /\ devices = <<>>
    /\ Len(closed_devices) = 2


-----------------------------------------------------------------------------
(* Claims about read_device_response *)

\* the payload bytes the first k reports of the message carry behind the
\* nine header bytes of the first and the marker byte of each later one
RECURSIVE IncomingData(_)
IncomingData(k) ==
    IF k = 0 THEN <<>>
    ELSE IF k = 1 THEN SubSeq(incoming[1], 10, Len(incoming[1]))
    ELSE IncomingData(k - 1) \o Tail(incoming[k])

\* C18: once read_device_response has done its first read, a first report
\* of fewer than 9 bytes or one that does not begin with '?', '#', '#' has
\* made it fail with the protocol error after that one read, the rest of
\* the reports left unread; a call that failed did no second read; a call
\* that returned has appended the bytes behind the first byte of every
\* continuation report, whatever that first byte is.
C18_DecodeValidation ==
    n_reads >= 1 =>
        LET first == incoming[1]
            bad == \/ Len(first) < 9
                   \/ first[1] # 63
                   \/ first[2] # 35
                   \/ first[3] # 35
        IN  /\ bad =>
                  /\ fpc = "failed"
                  /\ fresult = [ok |-> FALSE, err |-> "Protocol: unexpected wire response"]
                  /\ n_reads = 1
                  /\ wire = Tail(incoming)
            /\ fpc = "failed" =>
                  /\ n_reads = 1
                  /\ fresult = [ok |-> FALSE, err |-> "Protocol: unexpected wire response"]
            /\ (/\ fpc = "returned"
                /\ n_reads <= Len(incoming)
                /\ \A k \in 1..n_reads : Len(incoming[k]) = 64) =>
                  /\ fresult.ok
                  /\ fresult.bytes = SubSeq(IncomingData(n_reads), 1, msg_size)

\* C18 witness: a first report of full length and of a known type whose
\* only defect is its second magic byte has been rejected after one read.
C18_Witness ==
    /\ origin = "device"
    /\ fpc = "failed"
    /\ n_reads = 1
    /\ Len(incoming[1]) = 64
    /\ incoming[1][1] = QMARK
    /\ incoming[1][2] = HASH
    /\ incoming[1][3] # HASH
    /\ incoming[1][5] = 26

\* C20: for a message the host framed, the reader never does more reads
\* than the encoder wrote reports, ceil((8 + n) / 63); while it reads it
\* has taken 55 payload bytes from the first report and 63 from each later
\* one; when it is done it has done exactly that many reads, has returned
\* the type and the payload sent, and has left on the wire exactly the
\* reports of the message written behind it, which then decodes the same way.
C20_FramingInSync ==
    origin = "host" =>
        LET n == Len(message)
            expected == (8 + n + 62) \div 63
        IN  /\ Len(written) = expected
            /\ n_reads <= expected
            /\ fpc = "reading" => Len(data) = 55 + 63 * (n_reads - 1)
            /\ fpc \in {"returned", "failed"} =>
                  /\ n_reads = expected
                  /\ fresult = [ok |-> TRUE, type |-> msg_id, bytes |-> message]
                  /\ wire = IF follow \in FollowUps
                            THEN LET reports == Reports(follow.id, follow.payload)
                                 IN  [k \in 1..Len(reports) |-> Tail(reports[k])]
                            ELSE <<>>

\* C20 witness: a two-report message written right behind another message
\* has been decoded in two reads after that one, and the wire is empty.
C20_Witness ==
    /\ origin = "host"
    /\ follow = Second
    /\ fpc = "returned"
    /\ Len(message) = 56
    /\ n_reads = 2
    /\ fresult.ok
    /\ fresult.bytes = message
    /\ wire = <<>>

-----------------------------------------------------------------------------
(* Claims about threads *)

\* the pair of lists manager m holds now
Snapshot(m) == [active |-> m_devices[m], closed |-> m_closed[m]]

\* C11: snapshot atomicity. While a thread is inside list_devices,
\* device_info, the get_devices command or sign_transaction, the two lists
\* of its manager are a complete pair as one refresh left them, never the
\* active list of one refresh with the locked list of another; the list a
\* reader has read is a list of that pair, and the path sign_transaction
\* has looked up is a path that pair gives for an address.
C11_SnapshotAtomicity ==
    \A t \in Threads :
        LET m == ManagerOf(t)
        IN  /\ t_op[t] \in Readers \cup {"sign_transaction"}
                  => Snapshot(m) = committed[m]
            /\ (t_op[t] \in Readers /\ t_pc[t] = "leave")
                  => t_ret[t] = IF t_op[t] = "get_devices"
                                THEN committed[m].closed
                                ELSE committed[m].active
            /\ t_op[t] = "sign_transaction"
                  => \E a \in Addresses :
                        t_path[t] = FindDevice(committed[m].active,
                                               committed[m].closed, a)

\* a reader has read a list with a device in it while a refresh on the
\* shared HidApi is between its two stores
C11_Witness ==
    /\ t_op["t2"] \in Readers
    /\ t_pc["t2"] = "leave"
    /\ t_ret["t2"] # <<>>
    /\ t_op["t1"] = "sign_transaction"
    /\ t_path["t1"] # "none"
    /\ t_pc["t3"] = "store_closed"

\* the positions between self.usb.lock() and the drop of the guard
Holding == {"refresh", "refreshing", "for", "opening", "io", "store_closed",
            "return", "unlock"}

\* the positions inside a call into the HidApi: refresh_devices and
\* open_path
InHidApi == {"refreshing", "opening"}

\* C17: mutual exclusion on the shared HidApi. Every enumeration and every
\* open attempt, retries included, is made by the thread that holds the
\* guard; update_devices, pin_matrix_ack and sign_transaction hold it from
\* the lock until they return; no two threads are inside the HidApi at
\* once, and no two threads have an open handle at once.
C17_MutualExclusion ==
    /\ \A t \in Threads : t_pc[t] \in Holding => mutex = t
    /\ \A t \in Threads : t_handle[t] # "none" => mutex = t
    /\ \A t, u \in Threads :
          t # u => /\ ~(t_pc[t] \in InHidApi /\ t_pc[u] \in InHidApi)
                   /\ ~(t_handle[t] # "none" /\ t_handle[u] # "none")

\* a thread retries its open with the guard held while a thread of the
\* same manager and the refresh of the other manager wait for the guard
C17_Witness ==
    /\ t_op["t1"] = "sign_transaction"
    /\ t_pc["t1"] = "opening"
    /\ t_tries["t1"] >= 1
    /\ mutex = "t1"
    /\ t_op["t2"] = "pin_matrix_ack"
    /\ t_pc["t2"] = "lock"
    /\ t_op["t3"] = "update_devices"
    /\ t_pc["t3"] = "lock"

=============================================================================
